---- MODULE Spec2Model ----
(***************************************************************************)
(* Model of backend/notes/views.py: the request handlers of the study      *)
(* notes service, run by concurrent workers over one shared database.      *)
(* Every database query of a handler is one atomic step; the local Python  *)
(* objects of a handler (topic, study_note, analytics, result) are fields  *)
(* of the worker's request record.                                         *)
(***************************************************************************)
EXTENDS Integers, FiniteSets

\* Number of requests the clients send in one run (bounds every id counter).
MaxRequests == 3

Workers == {1, 2}
Users == {"alice", "bob"}
\* The difficulty a client gives a new topic, and the one an update sets.
CreateDifficulties == {"beginner"}
UpdateDifficulties == {"advanced"}
Statuses == {"pending", "processing", "completed", "failed"}

\* request.data.get('rating'): None (missing) is NoRating.
NoRating == -1
RatingInputs == {NoRating, 0, 1, 5, 6}

NoId == 0
NoTopic == [id |-> NoId, user |-> "none", status |-> "none", difficulty |-> "none"]
NoAnalytics == [id |-> NoId, note |-> NoId, views_count |-> 0, user_rating |-> NoRating]

\* The counts topic_analytics answers with, in the order it queries them.
NoCounts == [total_topics |-> 0, completed_topics |-> 0, pending_topics |-> 0,
             processing_topics |-> 0, failed_topics |-> 0,
             beginner |-> 0, intermediate |-> 0, advanced |-> 0]
AfterCount == [total_topics |-> "completed_topics", completed_topics |-> "pending_topics",
               pending_topics |-> "processing_topics",
               processing_topics |-> "failed_topics", failed_topics |-> "beginner",
               beginner |-> "intermediate", intermediate |-> "advanced",
               advanced |-> "done"]

VARIABLES
    topics,        \* StudyTopic rows: [id, user, status, difficulty]
    notes,         \* StudyNote rows: [id, topic]
    analytics,     \* NoteAnalytics rows: [id, note, views_count, user_rating]
    nextId,        \* next primary key of each table: [topic, note, analytics]
    started,       \* requests received so far
    req,           \* per worker: the request it is handling and its locals
    pool           \* the workers the server runs

vars == <<topics, notes, analytics, nextId, started, req, pool>>
db == <<topics, notes, analytics, nextId>>

Idle == [op |-> "none", pc |-> "idle", user |-> "none", arg |-> NoId,
         topic |-> NoTopic, old |-> NoId, note |-> NoId, analytics |-> NoAnalytics,
         rating |-> NoRating, ai |-> "none", code |-> 0, counts |-> NoCounts]

\* Each user has created one topic; nothing has been generated yet.
InitData ==
    /\ topics = {[id |-> 1, user |-> "alice", status |-> "pending", difficulty |-> "beginner"],
                 [id |-> 2, user |-> "bob", status |-> "pending", difficulty |-> "beginner"]}
    /\ notes = {}
    /\ analytics = {}
    /\ nextId = [topic |-> 3, note |-> 1, analytics |-> 1]
    /\ started = 0
    /\ req = [w \in Workers |-> Idle]

\* The server runs every worker: requests overlap.
Init == InitData /\ pool = Workers

\* The server runs one worker: one request at a time.
InitSeq == InitData /\ pool = {1}

(***************************************************************************)
(* The database: querysets, constraints, save and delete.                  *)
(***************************************************************************)
TopicIds == 1 .. (nextId.topic - 1)
NoteIds == 1 .. (nextId.note - 1)

\* Faulty variant: the lookup is not narrowed to the requesting user.
GetTopic_any_user(id, user) == {t \in topics : t.id = id}

\* StudyTopic.objects.get(id=topic_id, user=request.user); get_queryset().
GetTopic(id, user) == {t \in topics : t.id = id /\ t.user = user}

\* The reverse one-to-one accessor topic.study_note.
StudyNoteOf(tid) == {n \in notes : n.topic = tid}

\* StudyNote.objects.filter(topic__user=request.user) narrowed to one id.
GetNote(id, user) ==
    {n \in notes : n.id = id /\ \E t \in topics : t.id = n.topic /\ t.user = user}

AnalyticsOf(nid) == {a \in analytics : a.note = nid}

\* Faulty variant: topic is a plain foreign key, not unique.
NoteConstraint_not_unique(tid) == \E t \in topics : t.id = tid

\* StudyNote.topic: foreign key to an existing topic, unique (one-to-one).
NoteConstraint(tid) == (\E t \in topics : t.id = tid) /\ StudyNoteOf(tid) = {}

\* NoteAnalytics.note: foreign key to an existing note, unique (one-to-one).
AnalyticsConstraint(nid) == (\E n \in notes : n.id = nid) /\ AnalyticsOf(nid) = {}

\* Faulty variant: the status is written to every topic row, not only to the
\* row of the instance.
SaveTopic_every_row(row) ==
    {[t EXCEPT !.status = row.status] : t \in {x \in topics : x.id # row.id}} \cup {row}

\* Model.save() of a loaded topic: UPDATE by primary key, INSERT when no row
\* matched; either way the table then holds the instance's fields.
SaveTopic(row) == {t \in topics : t.id # row.id} \cup {row}

\* Model.save() of a loaded analytics row: UPDATE by primary key, INSERT when
\* no row matched (which the constraints of the table may refuse).
CanSaveAnalytics(row) ==
    (\E a \in analytics : a.id = row.id) \/ AnalyticsConstraint(row.note)
SaveAnalytics(row) == {a \in analytics : a.id # row.id} \cup {row}

\* note.delete(): the note and, by cascade, its analytics.
NotesAfterDelete(nid) == {n \in notes : n.id # nid}
AnalyticsAfterDelete(nid) == {a \in analytics : a.note # nid}

(***************************************************************************)
(* Requests.  A request is taken by the lowest free worker (one that has   *)
(* handled nothing yet or has sent its response); its first step is the    *)
(* handler's first query.  req[w] keeps the response until then.           *)
(***************************************************************************)
Free(w) == req[w].pc \in {"idle", "done"}
CanStart(w) ==
    /\ w \in pool
    /\ Free(w)
    /\ \A v \in pool : v < w => ~Free(v)
    /\ started < MaxRequests

Begin(op, user, arg) == [Idle EXCEPT !.op = op, !.user = user, !.arg = arg]

\* The response is built; the handler's loaded rows are dropped.
Respond(r, code) ==
    [r EXCEPT !.pc = "done", !.code = code, !.topic = NoTopic, !.analytics = NoAnalytics]

Goto(r, pc) == [r EXCEPT !.pc = pc]

At(w, op, pc) == req[w].op = op /\ req[w].pc = pc

(***************************************************************************)
(* StudyTopicListView.perform_create and StudyTopicDetailView.             *)
(***************************************************************************)
\* POST /topics: serializer.save(user=request.user); a new topic is pending.
topic_create(w) ==
    /\ CanStart(w)
    /\ \E u \in Users, d \in CreateDifficulties :
        /\ topics' = topics \cup {[id |-> nextId.topic, user |-> u,
                                   status |-> "pending", difficulty |-> d]}
        /\ nextId' = [nextId EXCEPT !.topic = @ + 1]
        /\ req' = [req EXCEPT ![w] = Respond(Begin("topic_create", u, nextId.topic), 201)]
    /\ started' = started + 1
    /\ UNCHANGED <<notes, analytics, pool>>

\* GET /topics/{id}: get_object() over the requesting user's topics.
topic_retrieve(w) ==
    /\ CanStart(w)
    /\ \E u \in Users, id \in TopicIds :
        req' = [req EXCEPT ![w] =
                  Respond(Begin("topic_retrieve", u, id),
                          IF GetTopic(id, u) = {} THEN 404 ELSE 200)]
    /\ started' = started + 1
    /\ UNCHANGED <<db, pool>>

\* PUT/PATCH /topics/{id}, first half: get_object(), then the serializer
\* sets the validated fields on the loaded instance.
topic_update_get(w) ==
    /\ CanStart(w)
    /\ \E u \in Users, id \in TopicIds, d \in UpdateDifficulties :
        LET r == Begin("topic_update", u, id) IN
        \/ /\ GetTopic(id, u) = {}
           /\ req' = [req EXCEPT ![w] = Respond(r, 404)]
        \/ \E t \in GetTopic(id, u) :
               req' = [req EXCEPT ![w] =
                         [r EXCEPT !.pc = "save", !.topic = [t EXCEPT !.difficulty = d]]]
    /\ started' = started + 1
    /\ UNCHANGED <<db, pool>>

\* PUT/PATCH /topics/{id}, second half: instance.save() writes every field.
topic_update_save(w) ==
    /\ At(w, "topic_update", "save")
    /\ topics' = SaveTopic(req[w].topic)
    /\ req' = [req EXCEPT ![w] = Respond(@, 200)]
    /\ UNCHANGED <<notes, analytics, nextId, started, pool>>

\* DELETE /topics/{id}, first half: get_object().
topic_delete_get(w) ==
    /\ CanStart(w)
    /\ \E u \in Users, id \in TopicIds :
        LET r == Begin("topic_delete", u, id) IN
        \/ /\ GetTopic(id, u) = {}
           /\ req' = [req EXCEPT ![w] = Respond(r, 404)]
        \/ \E t \in GetTopic(id, u) :
               req' = [req EXCEPT ![w] = [r EXCEPT !.pc = "delete", !.topic = t]]
    /\ started' = started + 1
    /\ UNCHANGED <<db, pool>>

\* DELETE /topics/{id}, second half: instance.delete() takes the topic's
\* note and the note's analytics with it.
topic_delete_delete(w) ==
    /\ At(w, "topic_delete", "delete")
    /\ LET tid == req[w].topic.id
           gone == {n.id : n \in StudyNoteOf(tid)} IN
        /\ topics' = {t \in topics : t.id # tid}
        /\ notes' = {n \in notes : n.topic # tid}
        /\ analytics' = {a \in analytics : a.note \notin gone}
    /\ req' = [req EXCEPT ![w] = Respond(@, 204)]
    /\ UNCHANGED <<nextId, started, pool>>

(***************************************************************************)
(* generate_notes: POST /topics/{id}/generate.                             *)
(***************************************************************************)
\* StudyTopic.objects.get(id=topic_id, user=request.user), or 404.
generate_notes_get(w) ==
    /\ CanStart(w)
    /\ \E u \in Users, id \in TopicIds :
        LET r == Begin("generate", u, id) IN
        \/ /\ GetTopic(id, u) = {}
           /\ req' = [req EXCEPT ![w] = Respond(r, 404)]
        \/ \E t \in GetTopic(id, u) :
               req' = [req EXCEPT ![w] = [r EXCEPT !.pc = "check", !.topic = t]]
    /\ started' = started + 1
    /\ UNCHANGED <<db, pool>>

\* Faulty variant: the existing-note check is left out.
generate_notes_check_unchecked(w) ==
    /\ At(w, "generate", "check")
    /\ req' = [req EXCEPT ![w] = Goto(@, "processing")]
    /\ UNCHANGED <<db, started, pool>>

\* hasattr(topic, 'study_note'): 400 when the topic has a note.
generate_notes_check(w) ==
    /\ At(w, "generate", "check")
    /\ \/ /\ StudyNoteOf(req[w].topic.id) # {}
          /\ req' = [req EXCEPT ![w] = Respond(@, 400)]
       \/ /\ StudyNoteOf(req[w].topic.id) = {}
          /\ req' = [req EXCEPT ![w] = Goto(@, "processing")]
    /\ UNCHANGED <<db, started, pool>>

\* topic.status = 'processing'; topic.save(); then
\* AIService().generate_study_notes(topic, user_preferences), which touches
\* no row, returns a result or raises.
generate_notes_processing(w) ==
    /\ At(w, "generate", "processing")
    /\ LET t == [req[w].topic EXCEPT !.status = "processing"] IN
        /\ topics' = SaveTopic(t)
        /\ \/ req' = [req EXCEPT ![w] =
                        [@ EXCEPT !.pc = "create_note", !.topic = t, !.ai = "ok"]]
           \/ req' = [req EXCEPT ![w] =
                        [@ EXCEPT !.pc = "failed", !.topic = t, !.ai = "raise"]]
    /\ UNCHANGED <<notes, analytics, nextId, started, pool>>

\* study_note = StudyNote.objects.create(topic=topic, ...); an IntegrityError
\* is caught by the handler's except.
generate_notes_create_note(w) ==
    /\ At(w, "generate", "create_note")
    /\ \/ /\ NoteConstraint(req[w].topic.id)
          /\ notes' = notes \cup {[id |-> nextId.note, topic |-> req[w].topic.id]}
          /\ nextId' = [nextId EXCEPT !.note = @ + 1]
          /\ req' = [req EXCEPT ![w] =
                       [@ EXCEPT !.pc = "create_analytics", !.note = nextId.note]]
       \/ /\ ~NoteConstraint(req[w].topic.id)
          /\ req' = [req EXCEPT ![w] = Goto(@, "failed")]
          /\ UNCHANGED <<notes, nextId>>
    /\ UNCHANGED <<topics, analytics, started, pool>>

\* Faulty variant: the analytics row is not created.
generate_notes_create_analytics_omitted(w) ==
    /\ At(w, "generate", "create_analytics")
    /\ req' = [req EXCEPT ![w] = Goto(@, "completed")]
    /\ UNCHANGED <<db, started, pool>>

\* NoteAnalytics.objects.create(note=study_note); an IntegrityError is caught
\* by the handler's except.
generate_notes_create_analytics(w) ==
    /\ At(w, "generate", "create_analytics")
    /\ \/ /\ AnalyticsConstraint(req[w].note)
          /\ analytics' = analytics \cup
                 {[NoAnalytics EXCEPT !.id = nextId.analytics, !.note = req[w].note]}
          /\ nextId' = [nextId EXCEPT !.analytics = @ + 1]
          /\ req' = [req EXCEPT ![w] = Goto(@, "completed")]
       \/ /\ ~AnalyticsConstraint(req[w].note)
          /\ req' = [req EXCEPT ![w] = Goto(@, "failed")]
          /\ UNCHANGED <<analytics, nextId>>
    /\ UNCHANGED <<topics, notes, started, pool>>

\* topic.status = 'completed'; topic.save(); 201.
generate_notes_completed(w) ==
    /\ At(w, "generate", "completed")
    /\ LET t == [req[w].topic EXCEPT !.status = "completed"] IN
        /\ topics' = SaveTopic(t)
        /\ req' = [req EXCEPT ![w] = Respond([@ EXCEPT !.topic = t], 201)]
    /\ UNCHANGED <<notes, analytics, nextId, started, pool>>

\* Faulty variant: the except branch answers 500 without saving the status.
generate_notes_failed_unsaved(w) ==
    /\ At(w, "generate", "failed")
    /\ req' = [req EXCEPT ![w] = Respond(@, 500)]
    /\ UNCHANGED <<db, started, pool>>

\* except Exception: topic.status = 'failed'; topic.save(); 500.
generate_notes_failed(w) ==
    /\ At(w, "generate", "failed")
    /\ LET t == [req[w].topic EXCEPT !.status = "failed"] IN
        /\ topics' = SaveTopic(t)
        /\ req' = [req EXCEPT ![w] = Respond([@ EXCEPT !.topic = t], 500)]
    /\ UNCHANGED <<notes, analytics, nextId, started, pool>>

(***************************************************************************)
(* regenerate_notes: POST /topics/{id}/regenerate.                         *)
(***************************************************************************)
\* StudyTopic.objects.get(id=topic_id, user=request.user), or 404.
regenerate_notes_get(w) ==
    /\ CanStart(w)
    /\ \E u \in Users, id \in TopicIds :
        LET r == Begin("regenerate", u, id) IN
        \/ /\ GetTopic(id, u) = {}
           /\ req' = [req EXCEPT ![w] = Respond(r, 404)]
        \/ \E t \in GetTopic(id, u) :
               req' = [req EXCEPT ![w] = [r EXCEPT !.pc = "check", !.topic = t]]
    /\ started' = started + 1
    /\ UNCHANGED <<db, pool>>

\* hasattr(topic, 'study_note'): the accessor loads the topic's note, if any,
\* and keeps it on the topic instance.
regenerate_notes_check(w) ==
    /\ At(w, "regenerate", "check")
    /\ \/ \E n \in StudyNoteOf(req[w].topic.id) :
              req' = [req EXCEPT ![w] = [@ EXCEPT !.pc = "delete", !.old = n.id]]
       \/ /\ StudyNoteOf(req[w].topic.id) = {}
          /\ req' = [req EXCEPT ![w] = Goto(@, "processing")]
    /\ UNCHANGED <<db, started, pool>>

\* Faulty variant: the loaded note is not deleted.
regenerate_notes_delete_omitted(w) ==
    /\ At(w, "regenerate", "delete")
    /\ req' = [req EXCEPT ![w] = Goto(@, "processing")]
    /\ UNCHANGED <<db, started, pool>>

\* topic.study_note.delete(): the loaded note and, by cascade, its analytics.
regenerate_notes_delete(w) ==
    /\ At(w, "regenerate", "delete")
    /\ notes' = NotesAfterDelete(req[w].old)
    /\ analytics' = AnalyticsAfterDelete(req[w].old)
    /\ req' = [req EXCEPT ![w] = Goto(@, "processing")]
    /\ UNCHANGED <<topics, nextId, started, pool>>

\* topic.status = 'processing'; topic.save(); then
\* AIService().generate_study_notes(topic, user_preferences), which touches
\* no row, returns a result or raises.
regenerate_notes_processing(w) ==
    /\ At(w, "regenerate", "processing")
    /\ LET t == [req[w].topic EXCEPT !.status = "processing"] IN
        /\ topics' = SaveTopic(t)
        /\ \/ req' = [req EXCEPT ![w] =
                        [@ EXCEPT !.pc = "create_note", !.topic = t, !.ai = "ok"]]
           \/ req' = [req EXCEPT ![w] =
                        [@ EXCEPT !.pc = "failed", !.topic = t, !.ai = "raise"]]
    /\ UNCHANGED <<notes, analytics, nextId, started, pool>>

\* study_note = StudyNote.objects.create(topic=topic, ...); an IntegrityError
\* is caught by the handler's except.
regenerate_notes_create_note(w) ==
    /\ At(w, "regenerate", "create_note")
    /\ \/ /\ NoteConstraint(req[w].topic.id)
          /\ notes' = notes \cup {[id |-> nextId.note, topic |-> req[w].topic.id]}
          /\ nextId' = [nextId EXCEPT !.note = @ + 1]
          /\ req' = [req EXCEPT ![w] =
                       [@ EXCEPT !.pc = "create_analytics", !.note = nextId.note]]
       \/ /\ ~NoteConstraint(req[w].topic.id)
          /\ req' = [req EXCEPT ![w] = Goto(@, "failed")]
          /\ UNCHANGED <<notes, nextId>>
    /\ UNCHANGED <<topics, analytics, started, pool>>

\* NoteAnalytics.objects.create(note=study_note); an IntegrityError is caught
\* by the handler's except.
regenerate_notes_create_analytics(w) ==
    /\ At(w, "regenerate", "create_analytics")
    /\ \/ /\ AnalyticsConstraint(req[w].note)
          /\ analytics' = analytics \cup
                 {[NoAnalytics EXCEPT !.id = nextId.analytics, !.note = req[w].note]}
          /\ nextId' = [nextId EXCEPT !.analytics = @ + 1]
          /\ req' = [req EXCEPT ![w] = Goto(@, "completed")]
       \/ /\ ~AnalyticsConstraint(req[w].note)
          /\ req' = [req EXCEPT ![w] = Goto(@, "failed")]
          /\ UNCHANGED <<analytics, nextId>>
    /\ UNCHANGED <<topics, notes, started, pool>>

\* topic.status = 'completed'; topic.save(); 201.
regenerate_notes_completed(w) ==
    /\ At(w, "regenerate", "completed")
    /\ LET t == [req[w].topic EXCEPT !.status = "completed"] IN
        /\ topics' = SaveTopic(t)
        /\ req' = [req EXCEPT ![w] = Respond([@ EXCEPT !.topic = t], 201)]
    /\ UNCHANGED <<notes, analytics, nextId, started, pool>>

\* Faulty variant: the except branch puts the deleted note back.
regenerate_notes_failed_restoring(w) ==
    /\ At(w, "regenerate", "failed")
    /\ LET t == [req[w].topic EXCEPT !.status = "failed"] IN
        /\ topics' = SaveTopic(t)
        /\ notes' = IF req[w].old = NoId THEN notes
                    ELSE notes \cup {[id |-> req[w].old, topic |-> t.id]}
        /\ req' = [req EXCEPT ![w] = Respond([@ EXCEPT !.topic = t], 500)]
    /\ UNCHANGED <<analytics, nextId, started, pool>>

\* except Exception: topic.status = 'failed'; topic.save(); 500.
regenerate_notes_failed(w) ==
    /\ At(w, "regenerate", "failed")
    /\ LET t == [req[w].topic EXCEPT !.status = "failed"] IN
        /\ topics' = SaveTopic(t)
        /\ req' = [req EXCEPT ![w] = Respond([@ EXCEPT !.topic = t], 500)]
    /\ UNCHANGED <<notes, analytics, nextId, started, pool>>

(***************************************************************************)
(* StudyNoteDetailView.retrieve: GET /notes/{id}.                          *)
(***************************************************************************)
\* NoteAnalytics.objects.get_or_create(note=...): the note's row, created
\* with the defaults when there is none; IntegrityError when the note is gone.
GetOrCreate(nid) ==
    IF AnalyticsOf(nid) # {} THEN AnalyticsOf(nid)
    ELSE IF AnalyticsConstraint(nid)
         THEN {[NoAnalytics EXCEPT !.id = nextId.analytics, !.note = nid]}
         ELSE {}

\* Faulty variant: the count is set to 1 instead of being incremented.
CountView_set_to_one(a) == [a EXCEPT !.views_count = 1]

\* analytics.views_count += 1
CountView(a) == [a EXCEPT !.views_count = @ + 1]

\* Faulty variant: a rating that is already there is kept.
SetRating_unless_rated(a, rating) ==
    IF a.user_rating = NoRating THEN [a EXCEPT !.user_rating = rating] ELSE a

\* analytics.user_rating = rating
SetRating(a, rating) == [a EXCEPT !.user_rating = rating]

\* Faulty variant: only the upper end of the range is tested.
BadRating_above_only(rating) == rating > 5

\* not rating or not (1 <= rating <= 5)
BadRating(rating) == rating = NoRating \/ rating = 0 \/ ~(1 <= rating /\ rating <= 5)

\* instance = self.get_object(), or 404.
note_retrieve_get(w) ==
    /\ CanStart(w)
    /\ \E u \in Users, id \in NoteIds :
        LET r == Begin("note_retrieve", u, id) IN
        \/ /\ GetNote(id, u) = {}
           /\ req' = [req EXCEPT ![w] = Respond(r, 404)]
        \/ /\ GetNote(id, u) # {}
           /\ req' = [req EXCEPT ![w] = [r EXCEPT !.pc = "get_or_create", !.note = id]]
    /\ started' = started + 1
    /\ UNCHANGED <<db, pool>>

\* analytics, created = NoteAnalytics.objects.get_or_create(note=instance)
note_retrieve_get_or_create(w) ==
    /\ At(w, "note_retrieve", "get_or_create")
    /\ \/ \E a \in GetOrCreate(req[w].note) :
            /\ analytics' = analytics \cup {a}
            /\ nextId' = [nextId EXCEPT !.analytics =
                            IF a.id = @ THEN @ + 1 ELSE @]
            /\ req' = [req EXCEPT ![w] = [@ EXCEPT !.pc = "save", !.analytics = a]]
       \/ /\ GetOrCreate(req[w].note) = {}
          /\ req' = [req EXCEPT ![w] = Respond(@, 500)]
          /\ UNCHANGED <<analytics, nextId>>
    /\ UNCHANGED <<topics, notes, started, pool>>

\* analytics.views_count += 1; analytics.last_viewed = now; analytics.save()
note_retrieve_save(w) ==
    /\ At(w, "note_retrieve", "save")
    /\ LET a == CountView(req[w].analytics) IN
        \/ /\ CanSaveAnalytics(a)
           /\ analytics' = SaveAnalytics(a)
           /\ req' = [req EXCEPT ![w] = Respond([@ EXCEPT !.analytics = a], 200)]
        \/ /\ ~CanSaveAnalytics(a)
           /\ req' = [req EXCEPT ![w] = Respond([@ EXCEPT !.analytics = a], 500)]
           /\ UNCHANGED analytics
    /\ UNCHANGED <<topics, notes, nextId, started, pool>>

(***************************************************************************)
(* rate_note: POST /notes/{id}/rate.                                       *)
(***************************************************************************)
\* StudyNote.objects.get(id=note_id, topic__user=request.user), or 404; then
\* the rating of the request body is validated, or 400.
rate_note_get(w) ==
    /\ CanStart(w)
    /\ \E u \in Users, id \in NoteIds, rating \in RatingInputs :
        LET r == [Begin("rate", u, id) EXCEPT !.rating = rating] IN
        \/ /\ GetNote(id, u) = {}
           /\ req' = [req EXCEPT ![w] = Respond(r, 404)]
        \/ /\ GetNote(id, u) # {}
           /\ BadRating(rating)
           /\ req' = [req EXCEPT ![w] = Respond([r EXCEPT !.note = id], 400)]
        \/ /\ GetNote(id, u) # {}
           /\ ~BadRating(rating)
           /\ req' = [req EXCEPT ![w] = [r EXCEPT !.pc = "get_or_create", !.note = id]]
    /\ started' = started + 1
    /\ UNCHANGED <<db, pool>>

\* analytics, created = NoteAnalytics.objects.get_or_create(note=note)
rate_note_get_or_create(w) ==
    /\ At(w, "rate", "get_or_create")
    /\ \/ \E a \in GetOrCreate(req[w].note) :
            /\ analytics' = analytics \cup {a}
            /\ nextId' = [nextId EXCEPT !.analytics =
                            IF a.id = @ THEN @ + 1 ELSE @]
            /\ req' = [req EXCEPT ![w] = [@ EXCEPT !.pc = "save", !.analytics = a]]
       \/ /\ GetOrCreate(req[w].note) = {}
          /\ req' = [req EXCEPT ![w] = Respond(@, 500)]
          /\ UNCHANGED <<analytics, nextId>>
    /\ UNCHANGED <<topics, notes, started, pool>>

\* analytics.user_rating = rating; analytics.save(); 200.
rate_note_save(w) ==
    /\ At(w, "rate", "save")
    /\ LET a == SetRating(req[w].analytics, req[w].rating) IN
        \/ /\ CanSaveAnalytics(a)
           /\ analytics' = SaveAnalytics(a)
           /\ req' = [req EXCEPT ![w] = Respond([@ EXCEPT !.analytics = a], 200)]
        \/ /\ ~CanSaveAnalytics(a)
           /\ req' = [req EXCEPT ![w] = Respond([@ EXCEPT !.analytics = a], 500)]
           /\ UNCHANGED analytics
    /\ UNCHANGED <<topics, notes, nextId, started, pool>>

(***************************************************************************)
(* topic_analytics: GET /topics/analytics.                                 *)
(***************************************************************************)
\* Faulty variant: the queryset is not narrowed to the requesting user.
UserTopics_of_all_users(user) == topics

\* topics = StudyTopic.objects.filter(user=request.user)
UserTopics(user) == {t \in topics : t.user = user}

\* One count() query of the response: topics.count(),
\* topics.filter(status=...).count() or topics.filter(difficulty=...).count().
CountQuery(user, key) ==
    Cardinality(
        CASE key = "total_topics" -> UserTopics(user)
          [] key = "completed_topics" -> {t \in UserTopics(user) : t.status = "completed"}
          [] key = "pending_topics" -> {t \in UserTopics(user) : t.status = "pending"}
          [] key = "processing_topics" -> {t \in UserTopics(user) : t.status = "processing"}
          [] key = "failed_topics" -> {t \in UserTopics(user) : t.status = "failed"}
          [] OTHER -> {t \in UserTopics(user) : t.difficulty = key})

\* The queryset is lazy: the first query is topics.count() for total_topics.
topic_analytics_total(w) ==
    /\ CanStart(w)
    /\ \E u \in Users :
        req' = [req EXCEPT ![w] =
                  [Begin("topic_analytics", u, NoId) EXCEPT
                      !.pc = AfterCount.total_topics,
                      !.counts.total_topics = CountQuery(u, "total_topics")]]
    /\ started' = started + 1
    /\ UNCHANGED <<db, pool>>

\* Each further entry of the response is one more count() query; after the
\* last one the response is sent, 200.
topic_analytics_count(w) ==
    /\ req[w].op = "topic_analytics"
    /\ req[w].pc \in DOMAIN NoCounts
    /\ LET key == req[w].pc
           r == [req[w] EXCEPT !.counts[key] = CountQuery(req[w].user, key)] IN
        req' = [req EXCEPT ![w] =
                  IF AfterCount[key] = "done" THEN Respond(r, 200)
                  ELSE Goto(r, AfterCount[key])]
    /\ UNCHANGED <<db, started, pool>>

(***************************************************************************)
(* The service: workers take requests and run their handlers step by step, *)
(* in any interleaving.                                                    *)
(***************************************************************************)
Next ==
    \E w \in Workers :
        \/ topic_create(w)
        \/ topic_retrieve(w)
        \/ topic_update_get(w)
        \/ topic_update_save(w)
        \/ topic_delete_get(w)
        \/ topic_delete_delete(w)
        \/ generate_notes_get(w)
        \/ generate_notes_check(w)
        \/ generate_notes_processing(w)
        \/ generate_notes_create_note(w)
        \/ generate_notes_create_analytics(w)
        \/ generate_notes_completed(w)
        \/ generate_notes_failed(w)
        \/ regenerate_notes_get(w)
        \/ regenerate_notes_check(w)
        \/ regenerate_notes_delete(w)
        \/ regenerate_notes_processing(w)
        \/ regenerate_notes_create_note(w)
        \/ regenerate_notes_create_analytics(w)
        \/ regenerate_notes_completed(w)
        \/ regenerate_notes_failed(w)
        \/ note_retrieve_get(w)
        \/ note_retrieve_get_or_create(w)
        \/ note_retrieve_save(w)
        \/ rate_note_get(w)
        \/ rate_note_get_or_create(w)
        \/ rate_note_save(w)
        \/ topic_analytics_total(w)
        \/ topic_analytics_count(w)

Spec == Init /\ [][Next]_vars

SpecSeq == InitSeq /\ [][Next]_vars

\* The clients send generate and regenerate requests only, overlapping.
NextLifecycle ==
    \E w \in Workers :
        \/ generate_notes_get(w)
        \/ generate_notes_check(w)
        \/ generate_notes_processing(w)
        \/ generate_notes_create_note(w)
        \/ generate_notes_create_analytics(w)
        \/ generate_notes_completed(w)
        \/ generate_notes_failed(w)
        \/ regenerate_notes_get(w)
        \/ regenerate_notes_check(w)
        \/ regenerate_notes_delete(w)
        \/ regenerate_notes_processing(w)
        \/ regenerate_notes_create_note(w)
        \/ regenerate_notes_create_analytics(w)
        \/ regenerate_notes_completed(w)
        \/ regenerate_notes_failed(w)

SpecLifecycle == Init /\ [][NextLifecycle]_vars

(***************************************************************************)
(* Properties.                                                             *)
(***************************************************************************)
StatusOf(tid) == {t.status : t \in {x \in topics : x.id = tid}}

Done(w, op) == req[w].op = op /\ req[w].pc = "done"

\* Worker w takes a step of its handler.
Steps(w) == req'[w] # req[w]

\* C1: after a generate call on an owned topic without a note in which the
\* generator returns a result, the call has answered 201, the topic is
\* 'completed', exactly one StudyNote exists for the topic and exactly one
\* NoteAnalytics exists for that note (one request at a time).
C1_GenerateSuccess ==
    \A w \in Workers :
        (Done(w, "generate") /\ req[w].ai = "ok") =>
            /\ req[w].code = 201
            /\ StatusOf(req[w].arg) = {"completed"}
            /\ Cardinality(StudyNoteOf(req[w].arg)) = 1
            /\ \A n \in StudyNoteOf(req[w].arg) :
                   n.id = req[w].note /\ Cardinality(AnalyticsOf(n.id)) = 1

C1_Witness ==
    \E w \in Workers :
        /\ Done(w, "generate") /\ req[w].ai = "ok" /\ req[w].code = 201
        /\ StudyNoteOf(req[w].arg) # {}

\* C2: after a generate call in which the generator raises, the call has
\* answered 500, the topic is 'failed' and no StudyNote exists for the topic
\* (one request at a time).
C2_GenerateFailure ==
    \A w \in Workers :
        (Done(w, "generate") /\ req[w].ai = "raise") =>
            /\ req[w].code = 500
            /\ StatusOf(req[w].arg) = {"failed"}
            /\ StudyNoteOf(req[w].arg) = {}

C2_Witness ==
    \E w \in Workers :
        Done(w, "generate") /\ req[w].ai = "raise" /\ req[w].code = 500

\* C3: a generate call on an owned topic that has a StudyNote goes from the
\* topic lookup to the note check without writing, and the note check answers
\* 400 without calling the generator and without changing any topic, note or
\* analytics row.
C3_GenerateConflict ==
    [][\A w \in Workers :
         /\ (Steps(w) /\ req'[w].op = "generate" /\ req'[w].pc = "check") =>
                UNCHANGED <<topics, notes, analytics>>
         /\ (Steps(w) /\ At(w, "generate", "check")
                /\ StudyNoteOf(req[w].topic.id) # {}) =>
                /\ req'[w].pc = "done" /\ req'[w].code = 400 /\ req'[w].ai = "none"
                /\ UNCHANGED <<topics, notes, analytics>>]_vars

C3_Witness ==
    \E w \in Workers :
        /\ Done(w, "generate") /\ req[w].code = 400 /\ req[w].ai = "none"
        /\ StudyNoteOf(req[w].arg) # {}

\* C4: after a regenerate call on an owned topic that had a StudyNote, in
\* which the generator returns a result, the old note and its analytics are
\* gone, the topic has exactly one note, a new one, with exactly one analytics
\* row that has views_count 0 and no rating, the topic is 'completed' and the
\* call has answered 201 (one request at a time).
C4_RegenerateReplaces ==
    \A w \in Workers :
        (Done(w, "regenerate") /\ req[w].ai = "ok" /\ req[w].old # NoId) =>
            /\ req[w].code = 201
            /\ StatusOf(req[w].arg) = {"completed"}
            /\ \A n \in notes : n.id # req[w].old
            /\ AnalyticsOf(req[w].old) = {}
            /\ req[w].note # req[w].old
            /\ StudyNoteOf(req[w].arg) = {[id |-> req[w].note, topic |-> req[w].arg]}
            /\ Cardinality(AnalyticsOf(req[w].note)) = 1
            /\ \A a \in AnalyticsOf(req[w].note) :
                   a.views_count = 0 /\ a.user_rating = NoRating

C4_Witness ==
    \E w \in Workers :
        /\ Done(w, "regenerate") /\ req[w].ai = "ok" /\ req[w].old # NoId
        /\ req[w].code = 201
        /\ req[w].note \in {n.id : n \in notes}

\* The request r addresses a topic, or a note of a topic, that another user owns.
Foreign(r) ==
    \/ /\ r.op \in {"generate", "regenerate", "topic_retrieve", "topic_update",
                    "topic_delete"}
       /\ \E t \in topics : t.id = r.arg /\ t.user # r.user
    \/ /\ r.op \in {"note_retrieve", "rate"}
       /\ \E n \in notes, t \in topics :
              n.id = r.arg /\ t.id = n.topic /\ t.user # r.user

\* C5: a generate, regenerate, topic retrieve/update/delete, note retrieve or
\* rate request that a user issues on a topic (or on the note of a topic)
\* owned by another user answers 404 in its first step, changes no topic, note
\* or analytics row and does not call the generator.
C5_OwnerOnly ==
    [][\A w \in Workers :
         (Steps(w) /\ Foreign(req'[w])) =>
             /\ req'[w].pc = "done" /\ req'[w].code = 404 /\ req'[w].ai = "none"
             /\ UNCHANGED <<topics, notes, analytics>>]_vars

C5_Witness ==
    \E w \in Workers :
        /\ Done(w, "rate") /\ Foreign(req[w]) /\ req[w].code = 404
        /\ \E v \in Workers :
               Done(v, "generate") /\ Foreign(req[v]) /\ req[v].code = 404

\* C6: in every reachable state, under any interleaving of the requests, each
\* topic has at most one StudyNote and each StudyNote at most one NoteAnalytics.
C6_OneToOne ==
    /\ \A t \in TopicIds : Cardinality(StudyNoteOf(t)) <= 1
    /\ \A n \in notes : Cardinality(AnalyticsOf(n.id)) <= 1

\* The generator has returned a result to a generate call, and creating the
\* note was refused because the topic has got a note in the meantime.
C6_Witness ==
    \E w \in Workers :
        /\ At(w, "generate", "failed") /\ req[w].ai = "ok" /\ req[w].note = NoId
        /\ StudyNoteOf(req[w].arg) # {}

\* Worker w is handling a request of one of the kinds in ops on topic tid.
Running(w, ops, tid) == ~Free(w) /\ req[w].op \in ops /\ req[w].topic.id = tid

\* The topic with id tid keeps the status 'failed' in this step, or is deleted.
StaysFailed(tid) == \A t \in topics' : t.id = tid => t.status = "failed"

C8_NotLeftProcessing ==
    \A t \in topics :
        t.status = "processing" =>
            \E w \in Workers : Running(w, {"generate", "regenerate"}, t.id)

\* C9: views_count of a NoteAnalytics row never decreases for as long as the
\* row exists, under any interleaving of note retrieve and rate requests.
C9_ViewsMonotonic ==
    [][\A a \in analytics : \A b \in analytics' :
         b.id = a.id => b.views_count >= a.views_count]_vars

\* C10: each retrieval of an owned note adds exactly 1 to the note's
\* views_count: the get-or-create step creates the analytics row with
\* views_count 0 when the note has none and changes nothing otherwise, and the
\* save step, when no other request has rewritten the row since it was
\* loaded, leaves views_count one higher and answers 200.
C10_RetrieveCountsOne ==
    [][\A w \in Workers :
         /\ (Steps(w) /\ At(w, "note_retrieve", "get_or_create")
                /\ req'[w].pc = "save") =>
                IF AnalyticsOf(req[w].note) = {}
                THEN \E a \in analytics' :
                        /\ analytics' = analytics \cup {a}
                        /\ a.note = req[w].note /\ a.views_count = 0
                ELSE analytics' = analytics
         /\ (Steps(w) /\ At(w, "note_retrieve", "save")
                /\ AnalyticsOf(req[w].note) = {req[w].analytics}) =>
                /\ req'[w].code = 200
                /\ analytics' = (analytics \ {req[w].analytics}) \cup
                       {[req[w].analytics EXCEPT !.views_count = @ + 1]}]_vars

\* A second retrieval of a note has been answered and the count is 2.
C10_Witness ==
    \E w \in Workers :
        /\ Done(w, "note_retrieve") /\ req[w].code = 200
        /\ \E a \in AnalyticsOf(req[w].note) : a.views_count = 2

\* Worker w takes a request of kind op in this step: the handler's first
\* query, and whatever the handler does before its next query.
Takes(w, op) == Free(w) /\ Steps(w) /\ req'[w].op = op

\* C11: a rate call on an owned note whose rating is missing or outside 1..5
\* answers 400 and ends there: it adds no NoteAnalytics row and changes no
\* user_rating or views_count (no topic, note or analytics row at all).
C11_BadRatingRejected ==
    [][\A w \in Workers :
         (/\ Takes(w, "rate")
          /\ GetNote(req'[w].arg, req'[w].user) # {}
          /\ req'[w].rating \notin 1 .. 5) =>
             /\ req'[w].pc = "done" /\ req'[w].code = 400
             /\ UNCHANGED <<topics, notes, analytics, nextId>>]_vars

\* A rating of 0 for a note that has been viewed once has been answered 400.
C11_Witness ==
    \E w \in Workers :
        /\ Done(w, "rate") /\ req[w].code = 400 /\ req[w].rating = 0
        /\ \E a \in AnalyticsOf(req[w].note) : a.views_count = 1

\* C12: a rate call on an owned note with a rating r in 1..5: the
\* get-or-create step creates the analytics row with views_count 0 and no
\* rating when the note has none and changes nothing otherwise, and the save
\* step, when no other request has rewritten the row since it was loaded,
\* answers 200 and leaves the row with user_rating = r, whatever it was, and
\* with its views_count unchanged.
C12_RateOverwrites ==
    [][\A w \in Workers :
         /\ (Takes(w, "rate") /\ GetNote(req'[w].arg, req'[w].user) # {}
                /\ req'[w].rating \in 1 .. 5) =>
                /\ req'[w].pc = "get_or_create" /\ req'[w].note = req'[w].arg
                /\ UNCHANGED <<topics, notes, analytics>>
         /\ (Steps(w) /\ At(w, "rate", "get_or_create") /\ req'[w].pc = "save") =>
                IF AnalyticsOf(req[w].note) = {}
                THEN \E a \in analytics' :
                        /\ analytics' = analytics \cup {a}
                        /\ a.note = req[w].note /\ a.views_count = 0
                        /\ a.user_rating = NoRating
                ELSE analytics' = analytics
         /\ (Steps(w) /\ At(w, "rate", "save")
                /\ AnalyticsOf(req[w].note) = {req[w].analytics}) =>
                /\ req[w].rating \in 1 .. 5
                /\ req'[w].pc = "done" /\ req'[w].code = 200
                /\ analytics' = (analytics \ {req[w].analytics}) \cup
                       {[req[w].analytics EXCEPT !.user_rating = req[w].rating]}]_vars

\* A note was rated 5 and then 1: both calls have answered 200 and the row
\* holds 1 and no view.
C12_Witness ==
    \E w \in Workers, v \in Workers :
        /\ Done(w, "rate") /\ req[w].code = 200 /\ req[w].rating = 1
        /\ Done(v, "rate") /\ req[v].code = 200 /\ req[v].rating = 5
        /\ req[v].note = req[w].note
        /\ \E a \in analytics :
               /\ AnalyticsOf(req[w].note) = {a}
               /\ a.user_rating = 1 /\ a.views_count = 0

\* C13: every step of a topic_analytics call leaves all rows as they are, and
\* the call answers 200 with pending_topics, processing_topics,
\* completed_topics and failed_topics equal to the number of the requesting
\* user's topics in each status and total_topics equal to their sum, which is
\* the number of that user's topics: no topic of another user is counted (one
\* request at a time).
C13_TopicAnalytics ==
    [][\A w \in Workers :
         (Steps(w) /\ req'[w].op = "topic_analytics") =>
             /\ UNCHANGED <<topics, notes, analytics, nextId>>
             /\ req'[w].pc = "done" =>
                    LET c == req'[w].counts
                        mine == {t \in topics : t.user = req'[w].user}
                        in(s) == Cardinality({t \in mine : t.status = s}) IN
                    /\ req'[w].code = 200
                    /\ c.pending_topics = in("pending")
                    /\ c.processing_topics = in("processing")
                    /\ c.completed_topics = in("completed")
                    /\ c.failed_topics = in("failed")
                    /\ c.total_topics = c.pending_topics + c.processing_topics
                                        + c.completed_topics + c.failed_topics
                    /\ c.total_topics = Cardinality(mine)]_vars

\* A user with a completed and a pending topic has got the counts 2, 1 and 1,
\* while another user has a topic too.
C13_Witness ==
    \E w \in Workers :
        /\ Done(w, "topic_analytics") /\ req[w].code = 200
        /\ req[w].counts.total_topics = 2
        /\ req[w].counts.completed_topics = 1
        /\ req[w].counts.pending_topics = 1
        /\ \E t \in topics : t.user # req[w].user

\* The status changes the lifecycle allows.
Lifecycle ==
    {<<"pending", "processing">>, <<"processing", "completed">>,
     <<"processing", "failed">>, <<"completed", "processing">>,
     <<"failed", "processing">>}

\* C14: every change of a topic's status made by a step of a generate or
\* regenerate call is one of pending -> processing, processing -> completed,
\* processing -> failed, completed -> processing and failed -> processing, in
\* any interleaving of the requests on the topic.
C14_StatusLifecycle ==
    [][\A w \in Workers :
         (Steps(w) /\ req[w].op \in {"generate", "regenerate"}) =>
             \A t \in topics : \A u \in topics' :
                 (u.id = t.id /\ u.status # t.status) =>
                     <<t.status, u.status>> \in Lifecycle]_vars

\* C15: after a regenerate call on a topic that had a StudyNote, in which the
\* generator raises, the call has answered 500, the topic is 'failed' and has
\* no StudyNote, and the note it had and that note's analytics are gone (one
\* request at a time).
C15_RegenerateFailure ==
    \A w \in Workers :
        (Done(w, "regenerate") /\ req[w].ai = "raise" /\ req[w].old # NoId) =>
            /\ req[w].code = 500
            /\ StatusOf(req[w].arg) = {"failed"}
            /\ StudyNoteOf(req[w].arg) = {}
            /\ \A n \in notes : n.id # req[w].old
            /\ AnalyticsOf(req[w].old) = {}

\* A regenerate call that loaded the topic's note, and in which the generator
\* raised, has answered 500.
C15_Witness ==
    \E w \in Workers :
        /\ Done(w, "regenerate") /\ req[w].ai = "raise" /\ req[w].old # NoId
        /\ req[w].code = 500
        /\ req[w].old \in NoteIds

\* C16: in every state in which no generate or regenerate request is in
\* flight on a topic, the topic is 'completed' if and only if it has a
\* StudyNote, in any interleaving of generate and regenerate requests.
C16_CompletedIffNote ==
    \A t \in topics :
        (\A w \in Workers : ~Running(w, {"generate", "regenerate"}, t.id)) =>
            (t.status = "completed" <=> StudyNoteOf(t.id) # {})

\* C17: a generate or regenerate call in which the generator has returned a
\* result and whose new note is there, with no other generate or regenerate
\* call in flight on the topic, creates the note's analytics and goes on to
\* write 'completed' and answer 201, whatever note retrieve and rate requests
\* have done in the meantime.
C17_ViewsDoNotFailGeneration ==
    [][\A w \in Workers :
         /\ (/\ Steps(w)
             /\ req[w].op \in {"generate", "regenerate"}
             /\ req[w].pc = "create_analytics"
             /\ \E n \in notes : n.id = req[w].note /\ n.topic = req[w].topic.id
             /\ \A v \in Workers \ {w} :
                    ~Running(v, {"generate", "regenerate"}, req[w].topic.id)) =>
                req'[w].pc = "completed"
         /\ (/\ Steps(w)
             /\ req[w].op \in {"generate", "regenerate"}
             /\ req[w].pc = "completed") =>
                /\ req'[w].pc = "done" /\ req'[w].code = 201
                /\ \E t \in topics' : t.id = req[w].arg /\ t.status = "completed"]_vars

\* C18: once the owner's delete of a topic has been answered, no topic row
\* with that id exists, also when a generate or regenerate call on the topic
\* was in flight at the time of the delete and has finished since.
C18_DeletedStaysDeleted ==
    \A w \in Workers :
        (Done(w, "topic_delete") /\ req[w].code = 204) =>
            \A t \in topics : t.id # req[w].arg

====
